---- MODULE Spec2Model ----
(***************************************************************************)
(* State-machine model of the historic-city camera control system:        *)
(* CameraManager (dual-mode DRONE/PERSON camera), SceneManager.resetCamera,*)
(* SceneManager.onWindowResize and the UIController shortcuts that drive   *)
(* the camera, the animation loop of HistoricCityApp that drives the       *)
(* per-frame update, LightingManager, the listeners of UIController and    *)
(* the cache of AssetLoader.                                               *)
(*                                                                         *)
(* Numbers.  JavaScript numbers are modelled as exact fixed-point values:  *)
(*   - time deltas in tenths of a second,                                  *)
(*   - angles in milliradians,                                             *)
(*   - Vector3 components in units of 1/PosUnit (1e-5 world units),        *)
(*   - scalars passed to multiplyScalar in tenths.                         *)
(* With these units every product the code forms is an integer, so the     *)
(* model does exact real arithmetic; floating-point rounding is not        *)
(* modelled.  cos/sin are tabulated to three decimals for the yaw values   *)
(* the bounded model can reach (multiples of 150 mrad).                    *)
(***************************************************************************)
EXTENDS Integers, Sequences, FiniteSets, TLC

VARIABLES
    cm,        \* the CameraManager object (its fields, both camera rigs)
    steps,     \* history: number of events handled so far (bounds the model)
    trip,      \* history: snapshot of a rig taken when its mode was switched away
    app,       \* the HistoricCityApp object and its requestAnimationFrame queue
    lm,        \* the LightingManager object and the lights and scene colours it sets
    ui,        \* the UIController's listeners on window, and what they have run
    assets,    \* the AssetLoader's caches and the loader requests in flight
    held,      \* history: the bound keys that are physically down
    screen,    \* the loading-screen element and the pending hide timers
    city,      \* the CityGenerator object and the scene content it created
    boot       \* where HistoricCityApp.init() stands, and the pending regenerate timers

vars == <<cm, steps, trip, app, lm, ui, assets, held, screen, city, boot>>

\* the loading screen, the generated city and the start-up
backstage == <<screen, city, boot>>

\* what an operation of the camera alone leaves untouched
beside == <<app, lm, ui, assets, held, screen, city, boot>>

(***************************************************************************)
(* Bounds of the model                                                     *)
(***************************************************************************)
MaxSteps == 5          \* events per behaviour when every key is available
MaxLookSteps == 8      \* events per behaviour with the look keys only
MaxYawSteps == 22      \* |yaw| stays within MaxYawSteps * YawStep
MaxDim == 2            \* viewport width and height range over 1..MaxDim
MaxFrames == 10        \* consecutive update() calls followed from one state
MaxLoopSteps == 6      \* events per behaviour of the animation-loop specification
MaxPending == 3        \* resume() is followed while fewer callbacks are pending
MaxUISteps == 4        \* events per behaviour of the lighting / UI specification
MaxAssetSteps == 6     \* events per behaviour of the asset-loader specification
MaxInflight == 2       \* loader requests in flight for one asset at a time
MaxKeySteps == 4       \* events per behaviour of the physical-key specification
MaxApiSteps == 5       \* events per behaviour of the direct-call specification
MaxSceneSteps == 7     \* events per behaviour of the start-up specification

(***************************************************************************)
(* Units                                                                   *)
(***************************************************************************)
PosUnit == 10 ^ 5      \* Vector3 components per world unit
TrigUnit == 10 ^ 3     \* scale of the cos/sin table
DeltaTimes == {0, 1, 10}   \* deltaTime values, in tenths of a second

(***************************************************************************)
(* CameraManager constants (constructor)                                   *)
(***************************************************************************)
DRONE == "drone"
PERSON == "person"
Modes == {DRONE, PERSON}

walkSpeed == 5
runSpeed == 10
flySpeed == 8
rotationSpeed == 1500              \* 1.5 rad/s in mrad/s
personHeight == 170000             \* 1.7 in 1/PosUnit
PI == 3142                         \* Math.PI in mrad (rounded)
PitchLimit == (PI * 4) \div 10     \* Math.PI * 0.4

MoveFlags == {"forward", "backward", "left", "right", "up", "down",
              "rotateLeft", "rotateRight", "lookUp", "lookDown"}

(***************************************************************************)
(* THREE.Vector3 / Euler / Quaternion helpers                              *)
(***************************************************************************)
Vector3(x, y, z) == [x |-> x, y |-> y, z |-> z]

\* Vector3.add
add(p, v) == [x |-> p.x + v.x, y |-> p.y + v.y, z |-> p.z + v.z]

\* Vector3.multiplyScalar with the scalar given in tenths.  In the source it
\* mutates the vector in place and returns it; callers below thread the
\* mutated vector through.
multiplyScalar(v, s10) ==
    [x |-> (v.x * s10) \div 10, y |-> (v.y * s10) \div 10, z |-> (v.z * s10) \div 10]

\* cos and sin of k * 150 mrad, k = 0..24, times TrigUnit (rounded)
CosTab == <<1000, 989, 955, 900, 825, 732, 622, 498, 362, 219, 71, -79, -227,
            -370, -505, -628, -737, -830, -904, -958, -990, -1000, -987, -953, -897>>
SinTab == <<0, 149, 296, 435, 565, 682, 783, 867, 932, 976, 997, 997, 974,
            929, 863, 778, 675, 558, 427, 287, 141, -8, -158, -304, -443>>

Abs(n) == IF n < 0 THEN -n ELSE n
\* grid of the trig table, mrad: the rotation of one tenth of a second
YawStep == rotationSpeed \div 10
Cos(a) == CosTab[(Abs(a) \div YawStep) + 1]
Sin(a) == IF a < 0 THEN -SinTab[((-a) \div YawStep) + 1] ELSE SinTab[(a \div YawStep) + 1]

\* Vector3.applyAxisAngle(new Vector3(0, 1, 0), angle): rotation about world Y
applyAxisAngleY(v, angle) ==
    LET c == Cos(angle)
        s == Sin(angle)
    IN  [x |-> (v.x * c + v.z * s) \div TrigUnit,
         y |-> v.y,
         z |-> (v.z * c - v.x * s) \div TrigUnit]

\* new THREE.Euler(pitch, yaw, 0, 'YXZ') and Quaternion.setFromEuler: the
\* orientation transform is identified by the Euler triple it is built from.
setFromEuler(pitch, yaw) == [order |-> "YXZ", x |-> pitch, y |-> yaw, z |-> 0]
IdentityQuaternion == setFromEuler(0, 0)

Min(a, b) == IF a < b THEN a ELSE b
Max(a, b) == IF a > b THEN a ELSE b
\* mutant: the upper bound of the clamp is forgotten
clampPitch_noUpper(pitch) == Max(-PitchLimit, pitch)

\* Math.max(-Math.PI * 0.4, Math.min(Math.PI * 0.4, pitch))
clampPitch(pitch) == Max(-PitchLimit, Min(PitchLimit, pitch))

\* width / height as a reduced fraction
RECURSIVE Gcd(_, _)
Gcd(a, b) == IF b = 0 THEN a ELSE Gcd(b, a % b)
Aspect(w, h) == <<w \div Gcd(w, h), h \div Gcd(w, h)>>

(***************************************************************************)
(* CameraManager.constructor and init                                      *)
(***************************************************************************)
PerspectiveCamera(aspect, position) ==
    [aspect |-> aspect, position |-> position, quaternion |-> IdentityQuaternion]

init(aspect) ==
    [currentMode  |-> DRONE,
     activeCamera |-> "droneCamera",
     moveState    |-> [f \in MoveFlags |-> FALSE],
     isRunning    |-> FALSE,
     droneYaw     |-> 0,
     dronePitch   |-> 0,
     personYaw    |-> 0,
     personPitch  |-> 0,
     droneCamera  |-> PerspectiveCamera(aspect, Vector3(0, 10 * PosUnit, 10 * PosUnit)),
     personCamera |-> PerspectiveCamera(aspect, Vector3(0, personHeight, 5 * PosUnit))]

(***************************************************************************)
(* CameraManager.setupKeyboardControls: the keydown and keyup listeners    *)
(***************************************************************************)
KeyFlag == [KeyW |-> "forward", KeyS |-> "backward", KeyA |-> "left", KeyD |-> "right",
            ArrowLeft |-> "rotateLeft", ArrowRight |-> "rotateRight",
            ArrowUp |-> "lookUp", ArrowDown |-> "lookDown", Space |-> "up"]

\* mutant: Left-Shift drives the descend flag in every mode
setKey_shiftDescends(c, code, value) ==
    CASE code \in DOMAIN KeyFlag ->
             [c EXCEPT !.moveState[KeyFlag[code]] = value]
      [] code = "ShiftLeft" ->
             [c EXCEPT !.moveState["down"] = value]
      [] code = "ControlLeft" ->
             IF c.currentMode = PERSON
             THEN [c EXCEPT !.isRunning = value]
             ELSE c
      [] OTHER -> c

setKey(c, code, value) ==
    CASE code \in DOMAIN KeyFlag ->
             [c EXCEPT !.moveState[KeyFlag[code]] = value]
      [] code = "ShiftLeft" ->
             IF c.currentMode = DRONE
             THEN [c EXCEPT !.moveState["down"] = value]
             ELSE [c EXCEPT !.isRunning = value]
      [] code = "ControlLeft" ->
             IF c.currentMode = PERSON
             THEN [c EXCEPT !.isRunning = value]
             ELSE c
      [] OTHER -> c

keydown(c, code) == setKey(c, code, TRUE)
\* mutant: the keyup listener has no case for Space, so "up" stays set
keyup_spaceSticks(c, code) == IF code = "Space" THEN c ELSE setKey(c, code, FALSE)

keyup(c, code) == setKey(c, code, FALSE)

\* the rig a mode renders through
CameraOf(mode) == IF mode = DRONE THEN "droneCamera" ELSE "personCamera"

\* mutant: one rotation state shared by both modes, carried over on a switch
switchMode_sharedYaw(c, mode) ==
    IF mode = c.currentMode THEN c
    ELSE IF mode = DRONE
         THEN [c EXCEPT !.currentMode = mode, !.activeCamera = "droneCamera",
                        !.droneYaw = c.personYaw]
    ELSE [c EXCEPT !.currentMode = mode, !.activeCamera = "personCamera",
                   !.personYaw = c.droneYaw,
                   !.personCamera.position.y = personHeight]

\* mutant: the active-camera reference is not repointed when returning to DRONE
switchMode_staleCamera(c, mode) ==
    IF mode = c.currentMode THEN c
    ELSE IF mode = DRONE
         THEN [c EXCEPT !.currentMode = mode]
    ELSE [c EXCEPT !.currentMode = mode, !.activeCamera = "personCamera",
                   !.personCamera.position.y = personHeight]

\* mutant: a mode switch releases every held flag
switchMode_clearsFlags(c, mode) ==
    IF mode = c.currentMode THEN c
    ELSE [c EXCEPT !.currentMode = mode, !.activeCamera = CameraOf(mode),
                   !.moveState = [f \in MoveFlags |-> FALSE],
                   !.isRunning = FALSE]

(***************************************************************************)
(* CameraManager.switchMode                                                *)
(***************************************************************************)
switchMode(c, mode) ==
    IF mode = c.currentMode THEN c
    ELSE IF mode = DRONE
         THEN [c EXCEPT !.currentMode = mode, !.activeCamera = "droneCamera"]
    ELSE IF mode = PERSON
         THEN [c EXCEPT !.currentMode = mode, !.activeCamera = "personCamera",
                        !.personCamera.position.y = personHeight]
    ELSE [c EXCEPT !.currentMode = mode]

(***************************************************************************)
(* CameraManager.updatePersonCamera / updateDroneCamera / update           *)
(***************************************************************************)
\* mutant: the angle is wrapped into (-pi, pi] after the integration
rotate_wraps(angle, plus, minus, step) ==
    LET a1 == IF plus THEN angle + step ELSE angle
        a2 == IF minus THEN a1 - step ELSE a1
    IN  IF a2 > PI THEN a2 - 2 * PI
        ELSE IF a2 <= -PI THEN a2 + 2 * PI
        ELSE a2

\* the yaw/pitch integration shared by both update methods
rotate(angle, plus, minus, step) ==
    LET a1 == IF plus THEN angle + step ELSE angle
    IN  IF minus THEN a1 - step ELSE a1

\* "if (flagA) position.add(vec.multiplyScalar(sA)); if (flagB)
\* position.add(vec.multiplyScalar(sB))" on ONE vector object: the second
\* multiplyScalar acts on the vector already scaled by the first.
addScaledTwice(pos, vec, flagA, sA, flagB, sB) ==
    LET v1 == IF flagA THEN multiplyScalar(vec, sA) ELSE vec
        p1 == IF flagA THEN add(pos, v1) ELSE pos
        v2 == IF flagB THEN multiplyScalar(v1, sB) ELSE v1
    IN  IF flagB THEN add(p1, v2) ELSE p1

\* mutant: diagonal movement is normalised (velocity scaled by 0.7 when a
\* forward/backward flag and a left/right flag are held together)
moveHorizontal_normalised(position, yaw, ms, velocity) ==
    LET diagonal == (ms["forward"] \/ ms["backward"]) /\ (ms["left"] \/ ms["right"])
        v == IF diagonal THEN (velocity * 7) \div 10 ELSE velocity
        horizontalDirection == applyAxisAngleY(Vector3(0, 0, -PosUnit), yaw)
        right == applyAxisAngleY(Vector3(PosUnit, 0, 0), yaw)
        p1 == addScaledTwice(position, horizontalDirection,
                             ms["forward"], v, ms["backward"], -v)
    IN  addScaledTwice(p1, right, ms["left"], -v, ms["right"], v)

\* mutant: the forward direction is built from (0, 0, 1) instead of (0, 0, -1)
moveHorizontal_forwardPlusZ(position, yaw, ms, velocity) ==
    LET horizontalDirection == applyAxisAngleY(Vector3(0, 0, PosUnit), yaw)
        right == applyAxisAngleY(Vector3(PosUnit, 0, 0), yaw)
        p1 == addScaledTwice(position, horizontalDirection,
                             ms["forward"], velocity, ms["backward"], -velocity)
    IN  addScaledTwice(p1, right, ms["left"], -velocity, ms["right"], velocity)

\* lines 232-257 (PERSON) and 296-320 (DRONE), the same code in both methods:
\* the movement direction is built from yaw alone, then forward/backward and
\* left/right are added to the position.
moveHorizontal(position, yaw, ms, velocity) ==
    LET horizontalDirection == applyAxisAngleY(Vector3(0, 0, -PosUnit), yaw)
        right == applyAxisAngleY(Vector3(PosUnit, 0, 0), yaw)
        p1 == addScaledTwice(position, horizontalDirection,
                             ms["forward"], velocity, ms["backward"], -velocity)
    IN  addScaledTwice(p1, right, ms["left"], -velocity, ms["right"], velocity)

\* mutant: PERSON handles the vertical flags like DRONE and does not re-snap Y
updatePersonCamera_vertical(c, deltaTime) ==
    IF c.currentMode # PERSON THEN c
    ELSE
    LET speed == IF c.isRunning THEN runSpeed ELSE walkSpeed
        velocity == speed * deltaTime
        rotStep == (rotationSpeed * deltaTime) \div 10
        ms == c.moveState
        yaw == rotate(c.personYaw, ms["rotateLeft"], ms["rotateRight"], rotStep)
        pitch == clampPitch(rotate(c.personPitch, ms["lookUp"], ms["lookDown"], rotStep))
        p2 == moveHorizontal(c.personCamera.position, yaw, ms, velocity)
        p3 == addScaledTwice(p2, Vector3(0, PosUnit, 0),
                             ms["up"], velocity, ms["down"], -velocity)
    IN  [c EXCEPT !.personYaw = yaw,
                  !.personPitch = pitch,
                  !.personCamera.quaternion = setFromEuler(pitch, yaw),
                  !.personCamera.position = p3]

\* mutant: a frame never counts for less than a tenth of a second
updatePersonCamera_minStep(c, deltaTime) ==
    IF c.currentMode # PERSON THEN c
    ELSE
    LET speed == IF c.isRunning THEN runSpeed ELSE walkSpeed
        velocity == speed * Max(deltaTime, 1)
        rotStep == (rotationSpeed * Max(deltaTime, 1)) \div 10
        ms == c.moveState
        yaw == rotate(c.personYaw, ms["rotateLeft"], ms["rotateRight"], rotStep)
        pitch == clampPitch(rotate(c.personPitch, ms["lookUp"], ms["lookDown"], rotStep))
        p2 == moveHorizontal(c.personCamera.position, yaw, ms, velocity)
    IN  [c EXCEPT !.personYaw = yaw,
                  !.personPitch = pitch,
                  !.personCamera.quaternion = setFromEuler(pitch, yaw),
                  !.personCamera.position = [p2 EXCEPT !.y = personHeight]]

updatePersonCamera(c, deltaTime) ==
    IF c.currentMode # PERSON THEN c
    ELSE
    LET speed == IF c.isRunning THEN runSpeed ELSE walkSpeed
        velocity == speed * deltaTime
        rotStep == (rotationSpeed * deltaTime) \div 10
        ms == c.moveState
        yaw == rotate(c.personYaw, ms["rotateLeft"], ms["rotateRight"], rotStep)
        pitch == clampPitch(rotate(c.personPitch, ms["lookUp"], ms["lookDown"], rotStep))
        p2 == moveHorizontal(c.personCamera.position, yaw, ms, velocity)
    IN  [c EXCEPT !.personYaw = yaw,
                  !.personPitch = pitch,
                  !.personCamera.quaternion = setFromEuler(pitch, yaw),
                  !.personCamera.position = [p2 EXCEPT !.y = personHeight]]

\* mutant: the vertical movement reads lookUp/lookDown instead of up/down
updateDroneCamera_lookMoves(c, deltaTime) ==
    IF c.currentMode # DRONE THEN c
    ELSE
    LET speed == IF c.isRunning THEN flySpeed * 2 ELSE flySpeed
        velocity == speed * deltaTime
        rotStep == (rotationSpeed * deltaTime) \div 10
        ms == c.moveState
        yaw == rotate(c.droneYaw, ms["rotateLeft"], ms["rotateRight"], rotStep)
        pitch == clampPitch(rotate(c.dronePitch, ms["lookUp"], ms["lookDown"], rotStep))
        p2 == moveHorizontal(c.droneCamera.position, yaw, ms, velocity)
        worldUp == Vector3(0, PosUnit, 0)
        p3 == addScaledTwice(p2, worldUp, ms["lookUp"], velocity, ms["lookDown"], -velocity)
    IN  [c EXCEPT !.droneYaw = yaw,
                  !.dronePitch = pitch,
                  !.droneCamera.quaternion = setFromEuler(pitch, yaw),
                  !.droneCamera.position = p3]

\* mutant: forward/backward fly along the look direction, pitch included
updateDroneCamera_lookDirection(c, deltaTime) ==
    IF c.currentMode # DRONE THEN c
    ELSE
    LET speed == IF c.isRunning THEN flySpeed * 2 ELSE flySpeed
        velocity == speed * deltaTime
        rotStep == (rotationSpeed * deltaTime) \div 10
        ms == c.moveState
        yaw == rotate(c.droneYaw, ms["rotateLeft"], ms["rotateRight"], rotStep)
        pitch == clampPitch(rotate(c.dronePitch, ms["lookUp"], ms["lookDown"], rotStep))
        p2 == moveHorizontal(c.droneCamera.position, yaw, ms, velocity)
        climb == Vector3(0, Sin(pitch) * (PosUnit \div TrigUnit), 0)
        p2b == addScaledTwice(p2, climb, ms["forward"], velocity, ms["backward"], -velocity)
        worldUp == Vector3(0, PosUnit, 0)
        p3 == addScaledTwice(p2b, worldUp, ms["up"], velocity, ms["down"], -velocity)
    IN  [c EXCEPT !.droneYaw = yaw,
                  !.dronePitch = pitch,
                  !.droneCamera.quaternion = setFromEuler(pitch, yaw),
                  !.droneCamera.position = p3]

\* mutant: up/down move along the camera's own up axis, shortened by the pitch
updateDroneCamera_tiltedUp(c, deltaTime) ==
    IF c.currentMode # DRONE THEN c
    ELSE
    LET speed == IF c.isRunning THEN flySpeed * 2 ELSE flySpeed
        velocity == speed * deltaTime
        rotStep == (rotationSpeed * deltaTime) \div 10
        ms == c.moveState
        yaw == rotate(c.droneYaw, ms["rotateLeft"], ms["rotateRight"], rotStep)
        pitch == clampPitch(rotate(c.dronePitch, ms["lookUp"], ms["lookDown"], rotStep))
        p2 == moveHorizontal(c.droneCamera.position, yaw, ms, velocity)
        worldUp == Vector3(0, Cos(pitch) * (PosUnit \div TrigUnit), 0)
        p3 == addScaledTwice(p2, worldUp, ms["up"], velocity, ms["down"], -velocity)
    IN  [c EXCEPT !.droneYaw = yaw,
                  !.dronePitch = pitch,
                  !.droneCamera.quaternion = setFromEuler(pitch, yaw),
                  !.droneCamera.position = p3]

\* mutant: the run modifier is ignored in DRONE mode
updateDroneCamera_noFastFly(c, deltaTime) ==
    IF c.currentMode # DRONE THEN c
    ELSE
    LET speed == flySpeed
        velocity == speed * deltaTime
        rotStep == (rotationSpeed * deltaTime) \div 10
        ms == c.moveState
        yaw == rotate(c.droneYaw, ms["rotateLeft"], ms["rotateRight"], rotStep)
        pitch == clampPitch(rotate(c.dronePitch, ms["lookUp"], ms["lookDown"], rotStep))
        p2 == moveHorizontal(c.droneCamera.position, yaw, ms, velocity)
        worldUp == Vector3(0, PosUnit, 0)
        p3 == addScaledTwice(p2, worldUp, ms["up"], velocity, ms["down"], -velocity)
    IN  [c EXCEPT !.droneYaw = yaw,
                  !.dronePitch = pitch,
                  !.droneCamera.quaternion = setFromEuler(pitch, yaw),
                  !.droneCamera.position = p3]

\* mutant: the movement direction is built from the yaw of the previous frame
updateDroneCamera_moveThenRotate(c, deltaTime) ==
    IF c.currentMode # DRONE THEN c
    ELSE
    LET speed == IF c.isRunning THEN flySpeed * 2 ELSE flySpeed
        velocity == speed * deltaTime
        rotStep == (rotationSpeed * deltaTime) \div 10
        ms == c.moveState
        yaw == rotate(c.droneYaw, ms["rotateLeft"], ms["rotateRight"], rotStep)
        pitch == clampPitch(rotate(c.dronePitch, ms["lookUp"], ms["lookDown"], rotStep))
        p2 == moveHorizontal(c.droneCamera.position, c.droneYaw, ms, velocity)
        worldUp == Vector3(0, PosUnit, 0)
        p3 == addScaledTwice(p2, worldUp, ms["up"], velocity, ms["down"], -velocity)
    IN  [c EXCEPT !.droneYaw = yaw,
                  !.dronePitch = pitch,
                  !.droneCamera.quaternion = setFromEuler(pitch, yaw),
                  !.droneCamera.position = p3]

updateDroneCamera(c, deltaTime) ==
    IF c.currentMode # DRONE THEN c
    ELSE
    LET speed == IF c.isRunning THEN flySpeed * 2 ELSE flySpeed
        velocity == speed * deltaTime
        rotStep == (rotationSpeed * deltaTime) \div 10
        ms == c.moveState
        yaw == rotate(c.droneYaw, ms["rotateLeft"], ms["rotateRight"], rotStep)
        pitch == clampPitch(rotate(c.dronePitch, ms["lookUp"], ms["lookDown"], rotStep))
        p2 == moveHorizontal(c.droneCamera.position, yaw, ms, velocity)
        worldUp == Vector3(0, PosUnit, 0)
        p3 == addScaledTwice(p2, worldUp, ms["up"], velocity, ms["down"], -velocity)
    IN  [c EXCEPT !.droneYaw = yaw,
                  !.dronePitch = pitch,
                  !.droneCamera.quaternion = setFromEuler(pitch, yaw),
                  !.droneCamera.position = p3]

update(c, deltaTime) ==
    IF c.currentMode = DRONE THEN updateDroneCamera(c, deltaTime)
    ELSE IF c.currentMode = PERSON THEN updatePersonCamera(c, deltaTime)
    ELSE c

\* mutant: only the active camera's projection is updated
resize_activeOnly(c, width, height) ==
    IF c.currentMode = DRONE
    THEN [c EXCEPT !.droneCamera.aspect = Aspect(width, height)]
    ELSE [c EXCEPT !.personCamera.aspect = Aspect(width, height)]

\* CameraManager.resize
resize(c, width, height) ==
    [c EXCEPT !.droneCamera.aspect = Aspect(width, height),
              !.personCamera.aspect = Aspect(width, height)]

\* CameraManager.getActiveCamera
getActiveCamera(c) == c.activeCamera

(***************************************************************************)
(* SceneManager.resetCamera                                                *)
(***************************************************************************)
\* mutant: the reset restores position and yaw but forgets the pitch
resetCamera_keepsPitch(c) ==
    IF c.currentMode = DRONE
    THEN [c EXCEPT !.droneCamera.position = Vector3(0, 10 * PosUnit, 10 * PosUnit),
                   !.droneYaw = 0,
                   !.droneCamera.quaternion = setFromEuler(c.dronePitch, 0)]
    ELSE [c EXCEPT !.personCamera.position = Vector3(0, personHeight, 5 * PosUnit),
                   !.personYaw = 0,
                   !.personCamera.quaternion = setFromEuler(c.personPitch, 0)]

\* mutant: yaw and pitch are reset but the orientation transform is not rebuilt
resetCamera_staleQuaternion(c) ==
    IF c.currentMode = DRONE
    THEN [c EXCEPT !.droneCamera.position = Vector3(0, 10 * PosUnit, 10 * PosUnit),
                   !.droneYaw = 0,
                   !.dronePitch = 0]
    ELSE [c EXCEPT !.personCamera.position = Vector3(0, personHeight, 5 * PosUnit),
                   !.personYaw = 0,
                   !.personPitch = 0]

\* mutant: the reset restores both rigs, not only the active one
resetCamera_bothRigs(c) ==
    [c EXCEPT !.droneCamera.position = Vector3(0, 10 * PosUnit, 10 * PosUnit),
              !.droneYaw = 0,
              !.dronePitch = 0,
              !.droneCamera.quaternion = setFromEuler(0, 0),
              !.personCamera.position = Vector3(0, personHeight, 5 * PosUnit),
              !.personYaw = 0,
              !.personPitch = 0,
              !.personCamera.quaternion = setFromEuler(0, 0)]

resetCamera(c) ==
    IF c.currentMode = DRONE
    THEN [c EXCEPT !.droneCamera.position = Vector3(0, 10 * PosUnit, 10 * PosUnit),
                   !.droneYaw = 0,
                   !.dronePitch = 0,
                   !.droneCamera.quaternion = setFromEuler(0, 0)]
    ELSE IF c.currentMode = PERSON
    THEN [c EXCEPT !.personCamera.position = Vector3(0, personHeight, 5 * PosUnit),
                   !.personYaw = 0,
                   !.personPitch = 0,
                   !.personCamera.quaternion = setFromEuler(0, 0)]
    ELSE c

(***************************************************************************)
(* UIController: the shortcuts and buttons that act on the camera          *)
(***************************************************************************)
\* mutant: the toggle always selects PERSON
toggleCameraMode_alwaysPerson(c) == switchMode(c, PERSON)

toggleCameraMode(c) ==
    switchMode(c, IF c.currentMode = DRONE THEN PERSON ELSE DRONE)

switchToMode(c, mode) ==
    IF mode = "drone" THEN switchMode(c, DRONE)
    ELSE IF mode = "person" THEN switchMode(c, PERSON)
    ELSE c

onKeyDown(c, code) ==
    CASE code = "KeyR" -> resetCamera(c)
      [] code = "KeyC" -> toggleCameraMode(c)
      [] OTHER -> c

(***************************************************************************)
(* HistoricCityApp: lifecycle and animation loop (main.js)                 *)
(*                                                                         *)
(* The operators act on the pair w = [app, cm].  app.pending is the number *)
(* of animate callbacks registered with requestAnimationFrame and not yet  *)
(* run; app.updates and app.renders count the sceneManager.update() and    *)
(* sceneManager.render() calls made since the browser last began running   *)
(* a frame's callbacks.                                                    *)
(***************************************************************************)
\* constructor: the fields before init() has got past "await generateCity()"
\* halted is history: pause() or stop() has been called and resume() has
\* not been called since
HistoricCityApp ==
    [isInitialized |-> FALSE, isRunning |-> FALSE,
     pending |-> 0, updates |-> 0, renders |-> 0, halted |-> FALSE]

\* animate(): deltaTime is what clock.getDelta() returns inside
\* sceneManager.update()
animate(w, deltaTime) ==
    IF ~w.app.isRunning THEN w
    ELSE [app |-> [w.app EXCEPT !.pending = @ + 1,
                                !.updates = @ + 1,
                                !.renders = @ + 1],
          cm  |-> update(w.cm, deltaTime)]

startAnimation(w, deltaTime) == animate([w EXCEPT !.app.isRunning = TRUE], deltaTime)

pause(w) == [w EXCEPT !.app.isRunning = FALSE]

stop(w) == [w EXCEPT !.app.isRunning = FALSE]

resume(w, deltaTime) ==
    IF w.app.isInitialized /\ ~w.app.isRunning THEN startAnimation(w, deltaTime) ELSE w

\* the tail of init(): startAnimation(), then isInitialized = true
initDone(w, deltaTime) == [startAnimation(w, deltaTime) EXCEPT !.app.isInitialized = TRUE]

\* the browser runs the k callbacks registered for this frame one after the
\* other; the clock has advanced by deltaTime since the last getDelta() for
\* the first of them and by nothing measurable for the following ones
RECURSIVE runCallbacks(_, _, _)
runCallbacks(w, k, deltaTime) ==
    IF k = 0 THEN w ELSE runCallbacks(animate(w, deltaTime), k - 1, 0)

frame(w, deltaTime) ==
    runCallbacks([w EXCEPT !.app.pending = 0, !.app.updates = 0, !.app.renders = 0],
                 w.app.pending, deltaTime)

(***************************************************************************)
(* LightingManager (LightingManager.js)                                    *)
(*                                                                         *)
(* currentTime is kept in minutes (the source keeps hours as a float;      *)
(* advanceTime adds deltaMinutes / 60), intensities in tenths, colours as  *)
(* the integer value of the hex literal.  The sun position is identified   *)
(* by the time it was computed from.                                       *)
(***************************************************************************)
HOUR == 60

lightConfig ==
    [night |-> [directionalColor |-> 4210816, directionalIntensity |-> 3,
                ambientIntensity |-> 1, backgroundColor |-> 51, fogColor |-> 51],
     dawn  |-> [directionalColor |-> 16737792, directionalIntensity |-> 7,
                ambientIntensity |-> 3, backgroundColor |-> 6702080, fogColor |-> 6702080],
     day   |-> [directionalColor |-> 16777130, directionalIntensity |-> 10,
                ambientIntensity |-> 4, backgroundColor |-> 8900331, fogColor |-> 8900331]]

\* mutant: the night/dawn boundaries are inclusive on the night side
getCurrentLightConfig_inclusive(currentTime) ==
    IF currentTime <= 6 * HOUR \/ currentTime >= 20 * HOUR THEN "night"
    ELSE IF currentTime < 8 * HOUR \/ currentTime > 18 * HOUR THEN "dawn"
    ELSE "day"

\* getCurrentLightConfig: the name of the configuration it returns
getCurrentLightConfig(currentTime) ==
    IF currentTime < 6 * HOUR \/ currentTime > 20 * HOUR THEN "night"
    ELSE IF currentTime < 8 * HOUR \/ currentTime > 18 * HOUR THEN "dawn"
    ELSE "day"

\* updateLighting: updateSunPosition, updateLightColors, updateAtmosphere
updateLighting(l) ==
    LET config == lightConfig[getCurrentLightConfig(l.currentTime)]
    IN  [l EXCEPT !.sunTime = l.currentTime,
                  !.directionalColor = config.directionalColor,
                  !.directionalIntensity = config.directionalIntensity,
                  !.ambientIntensity = config.ambientIntensity,
                  !.backgroundColor = config.backgroundColor,
                  !.fogColor = config.fogColor]

\* constructor: 12:00, summer, the lights as setupLights() creates them and
\* the scene colours as SceneManager.setupScene() sets them, then init()
LightingManager ==
    updateLighting([currentTime |-> 12 * HOUR, currentSeason |-> "summer",
                    sunTime |-> 0,
                    directionalColor |-> 16777215, directionalIntensity |-> 10,
                    ambientIntensity |-> 4,
                    backgroundColor |-> 8900331, fogColor |-> 8900331])

\* setTime(time), time given in minutes
setTime(l, time) == updateLighting([l EXCEPT !.currentTime = Max(0, Min(24 * HOUR, time))])

setSeason(l, season) == updateLighting([l EXCEPT !.currentSeason = season])

advanceTime(l, deltaMinutes) ==
    LET t == l.currentTime + deltaMinutes
    IN  updateLighting([l EXCEPT !.currentTime = IF t >= 24 * HOUR THEN t - 24 * HOUR ELSE t])

\* UIController.toggleDayNight
toggleDayNight(l) == setTime(l, IF l.currentTime < 12 * HOUR THEN 18 * HOUR ELSE 6 * HOUR)

(***************************************************************************)
(* UIController: the listeners it registers on window, and dispose()       *)
(*                                                                         *)
(* A listener is a pair [type, fn]; fn is the identity of the arrow        *)
(* function object.  Every "(e) => ..." expression evaluated creates a new *)
(* function object, numbered by ui.nextFn.  removeEventListener removes    *)
(* the listener with the same type and the same function object.           *)
(***************************************************************************)
WindowEvents == <<"keydown", "keyup", "resize">>

addEventListener(u, type) ==
    [u EXCEPT !.listeners = @ \cup {[type |-> type, fn |-> u.nextFn]},
              !.nextFn = @ + 1]

removeEventListener(u, type) ==
    [u EXCEPT !.listeners = @ \ {[type |-> type, fn |-> u.nextFn]},
              !.nextFn = @ + 1]

\* constructor: setupKeyboardControls() and setupWindowEvents()
UIController ==
    addEventListener(
        addEventListener(
            addEventListener([listeners |-> {}, nextFn |-> 1, keyStates |-> {},
                              debugVisible |-> FALSE, disposed |-> FALSE, ran |-> 0],
                             WindowEvents[1]),
            WindowEvents[2]),
        WindowEvents[3])

\* dispose(): the three removeEventListener calls on window
dispose(u) ==
    [removeEventListener(
         removeEventListener(
             removeEventListener(u, WindowEvents[1]),
             WindowEvents[2]),
         WindowEvents[3])
     EXCEPT !.disposed = TRUE]

Listening(u, type) == \E l \in u.listeners : l.type = type

\* history: a handler of the UIController has run; counted once disposed
Ran(u) == [u EXCEPT !.ran = IF u.disposed THEN @ + 1 ELSE @]

\* a keydown event reaches document (CameraManager) and then window
\* (UIController.onKeyDown, if still registered); w = [cm, lm, ui]
dispatchKeyDown(w, code) ==
    LET c == keydown(w.cm, code)
    IN  IF ~Listening(w.ui, "keydown") THEN [w EXCEPT !.cm = c]
        ELSE [cm |-> onKeyDown(c, code),
              lm |-> IF code = "KeyT" THEN toggleDayNight(w.lm) ELSE w.lm,
              ui |-> Ran([w.ui EXCEPT !.keyStates = @ \cup {code},
                                      !.debugVisible = IF code = "KeyI" THEN ~@ ELSE @])]

dispatchKeyUp(w, code) ==
    LET c == keyup(w.cm, code)
    IN  IF ~Listening(w.ui, "keyup") THEN [w EXCEPT !.cm = c]
        ELSE [w EXCEPT !.cm = c, !.ui = Ran([w.ui EXCEPT !.keyStates = @ \ {code}])]

\* a resize event: SceneManager.onWindowResize, then UIController.onWindowResize
dispatchResize(w, width, height) ==
    LET c == resize(w.cm, width, height)
    IN  IF ~Listening(w.ui, "resize") THEN [w EXCEPT !.cm = c]
        ELSE [w EXCEPT !.cm = c, !.ui = Ran(w.ui)]

(***************************************************************************)
(* The loading screen (UIController.showLoadingScreen / hideLoadingScreen) *)
(*                                                                         *)
(* display is the element's style.display ("css" while no inline value is  *)
(* set), hidden is the presence of the class 'hidden', timers counts the   *)
(* pending 500 ms timeouts of hideLoadingScreen.  last is history: the     *)
(* most recent of the two calls.  The element starts as the page's markup  *)
(* has it: without the class 'hidden', which getSystemInfo reads as        *)
(* "loading".                                                              *)
(***************************************************************************)
LoadingScreen == [display |-> "css", hidden |-> FALSE, timers |-> 0, last |-> "none"]

showLoadingScreen(s) == [s EXCEPT !.display = "flex", !.hidden = FALSE, !.last = "show"]

hideLoadingScreen(s) == [s EXCEPT !.hidden = TRUE, !.timers = @ + 1, !.last = "hide"]

\* the timeout callback of hideLoadingScreen
hideTimeout(s) == [s EXCEPT !.display = "none", !.timers = @ - 1]

\* loadingManager.onLoad as main.js configures it (setupAssetLoader): when
\* the last outstanding item has ended, the loading screen is hidden
onLoad(a, s) == IF a.itemsLoaded = a.itemsTotal THEN hideLoadingScreen(s) ELSE s

(***************************************************************************)
(* CityGenerator (CityGenerator.js) and the scene objects it creates       *)
(*                                                                         *)
(* An object is [id, name]; scene holds the objects of the generator that  *)
(* are in the THREE.Scene, disposed the objects whose geometry and         *)
(* material have been disposed, created numbers the objects.               *)
(***************************************************************************)
CityGenerator ==
    [scene |-> {}, cityModels |-> <<>>, buildings |-> <<>>, vegetation |-> <<>>,
     terrain |-> 0, disposed |-> {}, created |-> 0]

Range(seq) == {seq[i] : i \in 1..Len(seq)}

\* mutant: the old models are dropped from the lists but stay in the scene
clearCity_keepsScene(c) ==
    [c EXCEPT !.disposed = @ \cup Range(c.cityModels),
              !.cityModels = <<>>, !.buildings = <<>>, !.vegetation = <<>>]

clearCity(c) ==
    [c EXCEPT !.scene = @ \ Range(c.cityModels),
              !.disposed = @ \cup Range(c.cityModels),
              !.cityModels = <<>>, !.buildings = <<>>, !.vegetation = <<>>]

\* new THREE.Mesh / GridHelper, name, scene.add, cityModels.push
addModel(c, name) ==
    LET object == [id |-> c.created + 1, name |-> name]
    IN  [c EXCEPT !.created = object.id,
                  !.scene = @ \cup {object},
                  !.cityModels = Append(@, object)]

createGridLines(c) == addModel(c, "grid-helper")

createGridGround(c) ==
    LET d == addModel(c, "grid-ground")
    IN  createGridLines([d EXCEPT !.terrain = d.created])

createTestBox(c) ==
    LET d == addModel(c, "test-box")
    IN  [d EXCEPT !.buildings = Append(@, d.cityModels[Len(d.cityModels)])]

createSimpleScene(c) == createTestBox(createGridGround(c))

generateCity(c) == createSimpleScene(clearCity(c))

\* generateCity when the construction of object number made + 1 throws
generateCityThrows(c, made) ==
    LET d == clearCity(c)
    IN  CASE made = 0 -> d
          [] made = 1 -> [addModel(d, "grid-ground") EXCEPT !.terrain = d.created + 1]
          [] made = 2 -> createGridGround(d)

(***************************************************************************)
(* HistoricCityApp.init, generateCity, regenerateCity, dispose (main.js)   *)
(*                                                                         *)
(* w = [app, cm, screen, city, boot].  init() runs inside the constructor  *)
(* up to "await this.loadCityAssets()" and resumes in a later task.        *)
(* failAt names the numbered step of init() that throws (0: none; 6: the   *)
(* wiring after the UIController has been assigned).                       *)
(***************************************************************************)
FailSteps == 0..6

handleInitError(w) ==
    IF w.boot.uiController THEN [w EXCEPT !.screen = hideLoadingScreen(@)] ELSE w

\* init() up to the first await
initStart(w, failAt) ==
    IF failAt = 0
    THEN [w EXCEPT !.boot.pc = "loading", !.boot.cityGenerator = TRUE,
                   !.boot.uiController = TRUE,
                   !.screen = showLoadingScreen(@)]
    ELSE handleInitError([w EXCEPT !.boot.pc = "failed",
                                   !.boot.cityGenerator = (failAt >= 5),
                                   !.boot.uiController = (failAt >= 6)])

\* init() after the await: cityGenerator.generateCity() (thrown of its
\* calls throw), hideLoadingScreen, startAnimation, isInitialized = true
initResume(w, thrown, made, deltaTime) ==
    CASE thrown = 0 ->
           LET a == initDone([app |-> w.app, cm |-> w.cm], deltaTime)
           IN  [w EXCEPT !.city = generateCity(@), !.screen = hideLoadingScreen(@),
                         !.app = a.app, !.cm = a.cm, !.boot.pc = "done"]
      [] thrown = 1 ->
           LET a == initDone([app |-> w.app, cm |-> w.cm], deltaTime)
           IN  [w EXCEPT !.city = generateCity(generateCityThrows(@, made)),
                         !.screen = hideLoadingScreen(@),
                         !.app = a.app, !.cm = a.cm, !.boot.pc = "done"]
      [] thrown = 2 ->
           handleInitError([w EXCEPT !.city = generateCityThrows(generateCityThrows(@, made), made),
                                     !.boot.pc = "failed"])

regenerateCity(w) ==
    IF w.boot.cityGenerator
    THEN [w EXCEPT !.screen = showLoadingScreen(@), !.boot.regenerating = @ + 1,
                   !.boot.used = TRUE]
    ELSE w

\* the 100 ms timeout callback of regenerateCity
regenerateTimeout(w) ==
    [w EXCEPT !.city = generateCity(@), !.screen = hideLoadingScreen(@),
              !.boot.regenerating = @ - 1]

(***************************************************************************)
(* AssetLoader (part_000) with the THREE.LoadingManager it drives          *)
(*                                                                         *)
(* inflight[key] counts the loader requests for an asset that have been    *)
(* issued and have not yet called back; itemsTotal / itemsLoaded are the   *)
(* LoadingManager's counters (itemStart / itemEnd).  done, fresh and last  *)
(* are history: the assets loaded successfully since the last clearCache,  *)
(* the assets not requested since the last clearCache, and what the last   *)
(* operation was.                                                          *)
(***************************************************************************)
Paths == {"/models/tower.gltf", "/textures/stone.jpg"}
AssetKeys == [kind : {"model", "texture"}, path : Paths]

AssetLoader ==
    [modelCache |-> {}, textureCache |-> {}, isLoading |-> FALSE,
     loadedItems |-> 0, totalItems |-> 0,
     itemsLoaded |-> 0, itemsTotal |-> 0,
     inflight |-> [k \in AssetKeys |-> 0],
     done |-> {}, fresh |-> {}, last |-> [op |-> "none"]]

\* loadModel up to the gltfLoader.load call
loadModel(a, path) ==
    IF path \in a.modelCache THEN a
    ELSE [a EXCEPT !.isLoading = TRUE,
                   !.inflight[[kind |-> "model", path |-> path]] = @ + 1,
                   !.itemsTotal = @ + 1]

\* loadModels: loadModel for every path of the list, in order
RECURSIVE loadModels(_, _)
loadModels(a, modelPaths) ==
    IF modelPaths = <<>> THEN a
    ELSE loadModels(loadModel(a, Head(modelPaths)), Tail(modelPaths))

\* loadTexture up to the textureLoader.load call
loadTexture(a, path) ==
    IF path \in a.textureCache THEN a
    ELSE [a EXCEPT !.inflight[[kind |-> "texture", path |-> path]] = @ + 1,
                   !.itemsTotal = @ + 1]

\* LoadingManager.itemEnd: onProgress, and onLoad when nothing is left
itemEnd(a) ==
    LET n == a.itemsLoaded + 1
    IN  [a EXCEPT !.itemsLoaded = n,
                  !.loadedItems = n,
                  !.totalItems = a.itemsTotal,
                  !.isLoading = IF n = a.itemsTotal THEN FALSE ELSE @]

\* the success callback of a loader request, then itemEnd
onLoaded(a, key) ==
    itemEnd([a EXCEPT !.inflight[key] = @ - 1,
                      !.modelCache = IF key.kind = "model" THEN @ \cup {key.path} ELSE @,
                      !.textureCache = IF key.kind = "texture" THEN @ \cup {key.path} ELSE @])

\* the error callback of a loader request (itemError), then itemEnd
onFailed(a, key) == itemEnd([a EXCEPT !.inflight[key] = @ - 1])

clearCache(a) == [a EXCEPT !.modelCache = {}, !.textureCache = {}]

getCacheInfo(a) ==
    [models |-> Cardinality(a.modelCache), textures |-> Cardinality(a.textureCache),
     totalSize |-> Cardinality(a.modelCache) + Cardinality(a.textureCache)]

(***************************************************************************)
(* Keys                                                                    *)
(***************************************************************************)
CameraKeys == {"KeyW", "KeyS", "KeyA", "KeyD", "ArrowLeft", "ArrowRight",
               "ArrowUp", "ArrowDown", "Space", "ShiftLeft", "ControlLeft"}
AllKeys == CameraKeys \cup {"KeyR", "KeyC"}
LookKeys == {"ArrowUp", "ArrowDown", "ArrowLeft", "KeyR", "KeyC"}
FlightKeys == {"KeyW", "KeyD", "Space", "ShiftLeft", "ControlLeft",
               "ArrowLeft", "ArrowUp", "KeyC"}
LoopKeys == {"KeyW", "ArrowLeft"}
UIKeys == {"KeyT", "KeyR", "KeyC", "KeyI"}
ApiKeys == {"KeyW", "ShiftLeft"}

(***************************************************************************)
(* History of the last mode round trip                                     *)
(***************************************************************************)
Rig(c, mode) ==
    IF mode = DRONE
    THEN [yaw |-> c.droneYaw, pitch |-> c.dronePitch, position |-> c.droneCamera.position]
    ELSE [yaw |-> c.personYaw, pitch |-> c.personPitch, position |-> c.personCamera.position]

NoTrip == [phase |-> "none"]

\* the trip after an operation other than update() took c to d
TripAfter(c, d) ==
    IF d.currentMode # c.currentMode
    THEN IF trip.phase = "away" /\ trip.mode = d.currentMode
         THEN [trip EXCEPT !.phase = "back"]
         ELSE [phase |-> "away", mode |-> c.currentMode, rig |-> Rig(c, c.currentMode)]
    ELSE IF trip.phase = "back" THEN NoTrip ELSE trip

(***************************************************************************)
(* Actions                                                                 *)
(***************************************************************************)
Init ==
    /\ cm = init(Aspect(1, 1))
    /\ steps = 0
    /\ trip = NoTrip
    /\ app = HistoricCityApp
    /\ lm = LightingManager
    /\ ui = UIController
    /\ assets = AssetLoader
    /\ held = {}
    /\ screen = LoadingScreen
    /\ city = CityGenerator
    /\ boot = [pc |-> "new", cityGenerator |-> FALSE, uiController |-> FALSE,
               regenerating |-> 0, used |-> FALSE]

\* an event is handled: at most `limit` events per behaviour
Tick(limit) ==
    /\ steps < limit
    /\ steps' = steps + 1

\* a keydown event: the document listener of CameraManager, then the window
\* listener of UIController
KeyDown(code) ==
    /\ cm' = onKeyDown(keydown(cm, code), code)
    /\ trip' = TripAfter(cm, cm')
    /\ UNCHANGED beside

KeyUp(code) ==
    /\ cm' = keyup(cm, code)
    /\ trip' = TripAfter(cm, cm')
    /\ UNCHANGED beside

\* a click on the drone / person mode button
SwitchMode(mode) ==
    /\ cm' = switchToMode(cm, mode)
    /\ trip' = TripAfter(cm, cm')
    /\ UNCHANGED beside

\* a click on the reset-camera button
ResetCamera ==
    /\ cm' = resetCamera(cm)
    /\ trip' = TripAfter(cm, cm')
    /\ UNCHANGED beside

\* a window resize event (SceneManager.onWindowResize)
Resize(width, height) ==
    /\ cm' = resize(cm, width, height)
    /\ trip' = TripAfter(cm, cm')
    /\ UNCHANGED beside

\* the yaw the active rig has after update(deltaTime)
YawAfter(c, deltaTime) ==
    rotate(IF c.currentMode = DRONE THEN c.droneYaw ELSE c.personYaw,
           c.moveState["rotateLeft"], c.moveState["rotateRight"],
           (rotationSpeed * deltaTime) \div 10)

\* one animation frame: SceneManager.update
Update(deltaTime) ==
    /\ Abs(YawAfter(cm, deltaTime)) <= MaxYawSteps * YawStep
    /\ cm' = update(cm, deltaTime)
    /\ trip' = NoTrip
    /\ UNCHANGED beside

Next ==
    \/ \E mode \in Modes : Tick(MaxSteps) /\ SwitchMode(mode)
    \/ Tick(MaxSteps) /\ ResetCamera
    \/ \E code \in AllKeys : Tick(MaxSteps) /\ KeyDown(code)
    \/ \E code \in AllKeys : Tick(MaxSteps) /\ KeyUp(code)
    \/ \E dt \in DeltaTimes : Tick(MaxSteps) /\ Update(dt)

Spec == Init /\ [][Next]_vars

NextLook ==
    \/ \E mode \in Modes : Tick(MaxLookSteps) /\ SwitchMode(mode)
    \/ Tick(MaxLookSteps) /\ ResetCamera
    \/ \E code \in LookKeys : Tick(MaxLookSteps) /\ KeyDown(code)
    \/ \E code \in LookKeys : Tick(MaxLookSteps) /\ KeyUp(code)
    \/ \E dt \in DeltaTimes : Tick(MaxLookSteps) /\ Update(dt)
    \/ \E w \in 1..MaxDim, h \in 1..MaxDim : Tick(MaxLookSteps) /\ Resize(w, h)

SpecLook == Init /\ [][NextLook]_vars

\* moving, climbing, turning and the run modifiers, in both modes
NextFlight ==
    \/ \E mode \in Modes : Tick(MaxSteps) /\ SwitchMode(mode)
    \/ Tick(MaxSteps) /\ ResetCamera
    \/ \E code \in FlightKeys : Tick(MaxSteps) /\ KeyDown(code)
    \/ \E code \in FlightKeys : Tick(MaxSteps) /\ KeyUp(code)
    \/ \E dt \in DeltaTimes : Tick(MaxSteps) /\ Update(dt)

SpecFlight == Init /\ [][NextFlight]_vars

(***************************************************************************)
(* Actions of the animation loop                                           *)
(***************************************************************************)
World == [app |-> app, cm |-> cm]

\* the variables after an app operation took the world to w
Becomes(w) ==
    /\ app' = w.app
    /\ cm' = w.cm
    /\ trip' = NoTrip
    /\ UNCHANGED <<lm, ui, assets, held, screen, city, boot>>

\* init() resumes after "await generateCity()"
InitDone(deltaTime) ==
    /\ ~app.isInitialized
    /\ Abs(YawAfter(cm, deltaTime)) <= MaxYawSteps * YawStep
    /\ Becomes(initDone(World, deltaTime))

\* with the history of the call: nothing has been updated or rendered since
Halted(w) == [w EXCEPT !.app.halted = TRUE, !.app.updates = 0, !.app.renders = 0]

Pause == Becomes(Halted(pause(World)))

Stop == Becomes(Halted(stop(World)))

Resume(deltaTime) ==
    /\ app.pending < MaxPending
    /\ Abs(YawAfter(cm, deltaTime)) <= MaxYawSteps * YawStep
    /\ Becomes(resume([World EXCEPT !.app.halted = FALSE], deltaTime))

\* the browser begins a frame and runs the registered callbacks
Frame(deltaTime) ==
    /\ app.pending > 0
    /\ Abs(YawAfter(cm, deltaTime)) <= MaxYawSteps * YawStep
    /\ Becomes(frame(World, deltaTime))

NextLoop ==
    \/ \E dt \in DeltaTimes : Tick(MaxLoopSteps) /\ InitDone(dt)
    \/ Tick(MaxLoopSteps) /\ Pause
    \/ Tick(MaxLoopSteps) /\ Stop
    \/ \E dt \in DeltaTimes : Tick(MaxLoopSteps) /\ Resume(dt)
    \/ \E dt \in DeltaTimes : Tick(MaxLoopSteps) /\ Frame(dt)
    \/ \E code \in LoopKeys : Tick(MaxLoopSteps) /\ KeyDown(code)
    \/ \E code \in LoopKeys : Tick(MaxLoopSteps) /\ KeyUp(code)

SpecLoop == Init /\ [][NextLoop]_vars

(***************************************************************************)
(* Actions of the lighting and of the UIController's listeners             *)
(***************************************************************************)
TimeInputs == {-60, 0, 359, 360, 479, 480, 720, 1080, 1081, 1200, 1201, 1440, 1500}
DeltaMinutes == {0, 1, 60, 1440, 2880}
Seasons == {"summer", "winter"}

Stage == [cm |-> cm, lm |-> lm, ui |-> ui]

Shows(w) ==
    /\ cm' = w.cm
    /\ lm' = w.lm
    /\ ui' = w.ui
    /\ trip' = NoTrip
    /\ UNCHANGED <<app, assets, held, screen, city, boot>>

\* the time slider's input listener
SetTime(time) == Shows([Stage EXCEPT !.lm = setTime(lm, time)])

\* the season select's change listener
SetSeason(season) == Shows([Stage EXCEPT !.lm = setSeason(lm, season)])

AdvanceTime(deltaMinutes) == Shows([Stage EXCEPT !.lm = advanceTime(lm, deltaMinutes)])

WindowKeyDown(code) == Shows(dispatchKeyDown(Stage, code))

WindowKeyUp(code) == Shows(dispatchKeyUp(Stage, code))

WindowResize(width, height) == Shows(dispatchResize(Stage, width, height))

Dispose == Shows([Stage EXCEPT !.ui = dispose(ui)])

NextUI ==
    \/ \E time \in TimeInputs : Tick(MaxUISteps) /\ SetTime(time)
    \/ \E season \in Seasons : Tick(MaxUISteps) /\ SetSeason(season)
    \/ \E m \in DeltaMinutes : Tick(MaxUISteps) /\ AdvanceTime(m)
    \/ \E code \in UIKeys : Tick(MaxUISteps) /\ WindowKeyDown(code)
    \/ \E code \in UIKeys : Tick(MaxUISteps) /\ WindowKeyUp(code)
    \/ \E w \in 1..MaxDim, h \in 1..MaxDim : Tick(MaxUISteps) /\ WindowResize(w, h)
    \/ Tick(MaxUISteps) /\ Dispose

SpecUI == Init /\ [][NextUI]_vars

(***************************************************************************)
(* Actions of the asset loader                                             *)
(***************************************************************************)
Loads(a) ==
    /\ assets' = a
    /\ screen' = IF a.itemsLoaded > assets.itemsLoaded THEN onLoad(a, screen) ELSE screen
    /\ UNCHANGED <<cm, trip, app, lm, ui, held, city, boot>>

\* history of a load request for key that took the loader from a to b
Requested(a, b, key) ==
    [b EXCEPT !.fresh = @ \ {key},
              !.last = [op |-> "load", key |-> key,
                        hit |-> (b.itemsTotal = a.itemsTotal),
                        done |-> (key \in a.done),
                        fresh |-> (key \in a.fresh)]]

LoadModel(path) ==
    LET key == [kind |-> "model", path |-> path]
    IN  /\ assets.inflight[key] < MaxInflight
        /\ Loads(Requested(assets, loadModel(assets, path), key))

LoadTexture(path) ==
    LET key == [kind |-> "texture", path |-> path]
    IN  /\ assets.inflight[key] < MaxInflight
        /\ Loads(Requested(assets, loadTexture(assets, path), key))

LoadModels(modelPaths) ==
    LET a == loadModels(assets, modelPaths)
    IN  /\ \A key \in AssetKeys : a.inflight[key] <= MaxInflight
        /\ Loads([a EXCEPT !.fresh = @ \ {[kind |-> "model", path |-> modelPaths[i]] :
                                              i \in 1..Len(modelPaths)},
                           !.last = [op |-> "loadModels"]])

Loaded(key) ==
    /\ assets.inflight[key] > 0
    /\ Loads([onLoaded(assets, key) EXCEPT !.done = @ \cup {key},
                                           !.last = [op |-> "loaded"]])

Failed(key) ==
    /\ assets.inflight[key] > 0
    /\ Loads([onFailed(assets, key) EXCEPT !.last = [op |-> "failed"]])

ClearCache ==
    Loads([clearCache(assets) EXCEPT !.done = {}, !.fresh = AssetKeys,
                                    !.last = [op |-> "clearCache"]])

NextAssets ==
    \/ \E path \in Paths : Tick(MaxAssetSteps) /\ LoadModel(path)
    \/ \E path \in Paths : Tick(MaxAssetSteps) /\ LoadTexture(path)
    \/ \E p \in Paths, q \in Paths : Tick(MaxAssetSteps) /\ LoadModels(<<p, q>>)
    \/ \E key \in AssetKeys : Tick(MaxAssetSteps) /\ Loaded(key)
    \/ \E key \in AssetKeys : Tick(MaxAssetSteps) /\ Failed(key)
    \/ Tick(MaxAssetSteps) /\ ClearCache

SpecAssets == Init /\ [][NextAssets]_vars

(***************************************************************************)
(* Actions on the physical keys                                            *)
(***************************************************************************)
\* a bound key goes down (or auto-repeats while down)
Press(code) ==
    /\ held' = held \cup {code}
    /\ cm' = onKeyDown(keydown(cm, code), code)
    /\ trip' = TripAfter(cm, cm')
    /\ UNCHANGED <<app, lm, ui, assets, screen, city, boot>>

\* a key that is down goes up
Release(code) ==
    /\ code \in held
    /\ held' = held \ {code}
    /\ cm' = keyup(cm, code)
    /\ trip' = TripAfter(cm, cm')
    /\ UNCHANGED <<app, lm, ui, assets, screen, city, boot>>

NextKeys ==
    \/ \E code \in AllKeys : Tick(MaxKeySteps) /\ Press(code)
    \/ \E code \in AllKeys : Tick(MaxKeySteps) /\ Release(code)
    \/ \E mode \in Modes : Tick(MaxKeySteps) /\ SwitchMode(mode)
    \/ \E dt \in DeltaTimes : Tick(MaxKeySteps) /\ Update(dt)

SpecKeys == Init /\ [][NextKeys]_vars

(***************************************************************************)
(* Actions of a caller of the CameraManager's methods                      *)
(***************************************************************************)
AnyModes == Modes \cup {"orbit"}

\* cameraManager.switchMode(mode), called directly
CallSwitchMode(mode) ==
    /\ cm' = switchMode(cm, mode)
    /\ trip' = NoTrip
    /\ UNCHANGED beside

NextApi ==
    \/ \E mode \in AnyModes : Tick(MaxApiSteps) /\ CallSwitchMode(mode)
    \/ Tick(MaxApiSteps) /\ ResetCamera
    \/ \E code \in ApiKeys : Tick(MaxApiSteps) /\ KeyDown(code)
    \/ \E code \in ApiKeys : Tick(MaxApiSteps) /\ KeyUp(code)
    \/ \E dt \in DeltaTimes : Tick(MaxApiSteps) /\ Update(dt)

SpecApi == Init /\ [][NextApi]_vars

(***************************************************************************)
(* Actions of the start-up, the loading screen and the city generator      *)
(***************************************************************************)
Backstage == [app |-> app, cm |-> cm, screen |-> screen, city |-> city, boot |-> boot]

Stages(w) ==
    /\ app' = w.app
    /\ cm' = w.cm
    /\ screen' = w.screen
    /\ city' = w.city
    /\ boot' = w.boot
    /\ trip' = NoTrip
    /\ UNCHANGED <<lm, ui, assets, held>>

\* new HistoricCityApp(): init() up to its first await
InitStart(failAt) ==
    /\ boot.pc = "new"
    /\ Stages(initStart(Backstage, failAt))

\* init() resumes after "await this.loadCityAssets()"
InitResume(thrown, made, deltaTime) ==
    /\ boot.pc = "loading"
    /\ Stages(initResume(Backstage, thrown, made, deltaTime))

\* window.regenerateCity(), while the UIController exists
RegenerateCity ==
    /\ boot.uiController
    /\ Stages(regenerateCity(Backstage))

RegenerateTimeout ==
    /\ boot.regenerating > 0
    /\ Stages(regenerateTimeout(Backstage))

HideTimeout ==
    /\ screen.timers > 0
    /\ Stages([Backstage EXCEPT !.screen = hideTimeout(@)])

\* uiController.showLoadingScreen() / hideLoadingScreen(), called directly
ShowLoadingScreen ==
    /\ boot.uiController
    /\ Stages([Backstage EXCEPT !.screen = showLoadingScreen(@), !.boot.used = TRUE])

HideLoadingScreen ==
    /\ boot.uiController
    /\ Stages([Backstage EXCEPT !.screen = hideLoadingScreen(@), !.boot.used = TRUE])

\* cityGenerator.dispose(), as app.dispose() calls it
DisposeCity ==
    /\ boot.cityGenerator
    /\ Stages([Backstage EXCEPT !.city = clearCity(@), !.boot.used = TRUE])

NextScene ==
    \/ \E failAt \in FailSteps : Tick(MaxSceneSteps) /\ InitStart(failAt)
    \/ \E thrown \in 0..2, made \in 0..2, dt \in DeltaTimes :
           Tick(MaxSceneSteps) /\ InitResume(thrown, made, dt)
    \/ Tick(MaxSceneSteps) /\ RegenerateCity
    \/ Tick(MaxSceneSteps) /\ RegenerateTimeout
    \/ Tick(MaxSceneSteps) /\ HideTimeout
    \/ Tick(MaxSceneSteps) /\ ShowLoadingScreen
    \/ Tick(MaxSceneSteps) /\ HideLoadingScreen
    \/ Tick(MaxSceneSteps) /\ DisposeCity

SpecScene == Init /\ [][NextScene]_vars

(***************************************************************************)
(* Properties                                                              *)
(***************************************************************************)
ActivePos(c) ==
    IF c.currentMode = DRONE THEN c.droneCamera.position ELSE c.personCamera.position
ActiveYaw(c) == IF c.currentMode = DRONE THEN c.droneYaw ELSE c.personYaw
ActivePitch(c) == IF c.currentMode = DRONE THEN c.dronePitch ELSE c.personPitch
ActiveQuaternion(c) ==
    IF c.currentMode = DRONE THEN c.droneCamera.quaternion ELSE c.personCamera.quaternion

\* the deltaTime values update() can be called with in state c
Frames(c) == {dt \in DeltaTimes : Abs(YawAfter(c, dt)) <= MaxYawSteps * YawStep}

DroneHome == Vector3(0, 10 * PosUnit, 10 * PosUnit)
PersonHome == Vector3(0, personHeight, 5 * PosUnit)
Moving(ms) ==
    ms["forward"] \/ ms["backward"] \/ ms["left"] \/ ms["right"] \/ ms["up"] \/ ms["down"]

\* C1: in every reachable state both pitches lie in [-0.4*pi, 0.4*pi]; an
\* update with lookUp (lookDown) held moves the active pitch by
\* rotationSpeed * dt towards the bound, stops exactly at the bound and never
\* passes it.
C1_PitchClamped ==
    /\ Abs(cm.dronePitch) <= PitchLimit
    /\ Abs(cm.personPitch) <= PitchLimit
    /\ \A dt \in Frames(cm) :
         LET d == update(cm, dt)
             step == (rotationSpeed * dt) \div 10
         IN  /\ Abs(d.dronePitch) <= PitchLimit
             /\ Abs(d.personPitch) <= PitchLimit
             /\ (cm.moveState["lookUp"] /\ ~cm.moveState["lookDown"])
                    => ActivePitch(d) = Min(ActivePitch(cm) + step, PitchLimit)
             /\ (cm.moveState["lookDown"] /\ ~cm.moveState["lookUp"])
                    => ActivePitch(d) = Max(ActivePitch(cm) - step, -PitchLimit)

\* lookUp is held, updates have saturated one rig's pitch at the upper bound
\* and the other rig sits at the lower bound
C1_Saturated ==
    /\ cm.moveState["lookUp"]
    /\ ActivePitch(cm) = PitchLimit
    /\ (cm.dronePitch = -PitchLimit \/ cm.personPitch = -PitchLimit)

\* C2: after switchMode(B) then switchMode(A) with no update() in between,
\* mode A's yaw, pitch and position equal the values they had before the first
\* switch, whatever key events (and resets of B) happened in between.
C2_RoundTrip ==
    trip.phase = "back" => Rig(cm, trip.mode) = trip.rig

\* a round trip has completed for a rig that had been turned and moved
C2_RoundTripDone ==
    /\ trip.phase = "back"
    /\ trip.rig.yaw # 0
    /\ trip.rig.position \notin {DroneHome, PersonHome}

\* C3: the PERSON rig's Y coordinate is personHeight in every reachable state,
\* and after update(dt) from it for every dt, whatever flags are held.
C3_PersonEyeHeight ==
    /\ cm.personCamera.position.y = personHeight
    /\ \A dt \in Frames(cm) : update(cm, dt).personCamera.position.y = personHeight

\* PERSON is active, a vertical flag is held and the rig has walked away
C3_PersonWalked ==
    /\ cm.currentMode = PERSON
    /\ (cm.moveState["up"] \/ cm.moveState["down"])
    /\ cm.personCamera.position # PersonHome

\* C4: the controller starts in DRONE; currentMode is always DRONE or PERSON
\* and getActiveCamera() is the rig of currentMode.
C4_ModeAndCamera ==
    /\ steps = 0 => cm.currentMode = DRONE
    /\ cm.currentMode \in Modes
    /\ getActiveCamera(cm) \in {"droneCamera", "personCamera"}
    /\ getActiveCamera(cm) = CameraOf(cm.currentMode)

\* DRONE is active again after PERSON had been active and used
C4_BackInDrone ==
    /\ cm.currentMode = DRONE
    /\ getActiveCamera(cm) = "droneCamera"
    /\ cm.personYaw # 0

\* C5: switchMode(target) changes only currentMode and the active-camera
\* reference; with target = currentMode it changes nothing.
C5_SwitchFrame ==
    \A mode \in Modes :
        /\ switchMode(cm, mode) =
               [cm EXCEPT !.currentMode = mode, !.activeCamera = CameraOf(mode)]
        /\ mode = cm.currentMode => switchMode(cm, mode) = cm

\* a switch into PERSON has happened while flags were held and both rigs had
\* left their defaults
C5_SwitchedWithState ==
    /\ cm.currentMode = PERSON
    /\ cm.moveState["forward"]
    /\ cm.dronePitch # 0
    /\ cm.droneCamera.position # DroneHome
    /\ switchMode(cm, DRONE) # cm

\* C6: resetCamera puts the active rig at its defaults: DRONE (0,10,10),
\* PERSON (0, personHeight, 5), yaw 0, pitch 0, identity rotation.
C6_ResetDefaults ==
    LET d == resetCamera(cm)
    IN  /\ ActivePos(d) = (IF cm.currentMode = DRONE THEN DroneHome ELSE PersonHome)
        /\ ActiveYaw(d) = 0
        /\ ActivePitch(d) = 0
        /\ ActiveQuaternion(d) = IdentityQuaternion
        /\ d.currentMode = cm.currentMode

\* the active rig has been moved, turned and pitched, so the reset acts
C6_ResetActs ==
    /\ ActivePos(cm) \notin {DroneHome, PersonHome}
    /\ ActiveYaw(cm) # 0
    /\ ActivePitch(cm) # 0
    /\ resetCamera(cm) # cm

\* C7: both rigs always have the same aspect ratio, and resize(w, h) makes it
\* w/h for both, whichever mode is active.
C7_SharedAspect ==
    /\ cm.droneCamera.aspect = cm.personCamera.aspect
    /\ \A w \in 1..MaxDim, h \in 1..MaxDim :
         LET d == resize(cm, w, h)
         IN  /\ d.droneCamera.aspect = Aspect(w, h)
             /\ d.personCamera.aspect = Aspect(w, h)

\* a resize to a new ratio has happened while PERSON was active, after DRONE
\* had been used
C7_ResizedInPerson ==
    /\ cm.currentMode = PERSON
    /\ cm.personCamera.aspect = Aspect(MaxDim, 1)
    /\ cm.dronePitch # 0

\* C8: an update with a look flag held and no movement flag leaves the active
\* rig's position unchanged.
C8_LookKeepsPosition ==
    ((cm.moveState["lookUp"] \/ cm.moveState["lookDown"]) /\ ~Moving(cm.moveState))
        => \A dt \in Frames(cm) : ActivePos(update(cm, dt)) = ActivePos(cm)

\* only lookUp is held, the rig is away from its default and has already
\* been pitched by an update
C8_LookingOnly ==
    /\ cm.moveState["lookUp"]
    /\ ~Moving(cm.moveState)
    /\ ActivePos(cm) \notin {DroneHome, PersonHome}
    /\ ActivePitch(cm) > 0

\* pitch values for comparing states that differ only in pitch
PitchSamples == {-PitchLimit, -YawStep, 0, YawStep, 2 * YawStep, PitchLimit}
WithPitch(c, pitch) ==
    IF c.currentMode = DRONE
    THEN [c EXCEPT !.dronePitch = pitch,
                   !.droneCamera.quaternion = setFromEuler(pitch, c.droneYaw)]
    ELSE [c EXCEPT !.personPitch = pitch,
                   !.personCamera.quaternion = setFromEuler(pitch, c.personYaw)]

\* C9: two states that differ only in the active rig's pitch (look flags off)
\* get the same position from the same update(dt).
C9_PitchIndependent ==
    (~cm.moveState["lookUp"] /\ ~cm.moveState["lookDown"])
        => \A dt \in Frames(cm) : \A pitch \in PitchSamples :
               ActivePos(update(WithPitch(cm, pitch), dt)) = ActivePos(update(cm, dt))

\* forward is held with the look flags off, in a state that was pitched and
\* turned by earlier updates
C9_MovingWhilePitched ==
    /\ cm.moveState["forward"]
    /\ ~cm.moveState["lookUp"] /\ ~cm.moveState["lookDown"]
    /\ ActivePitch(cm) # 0
    /\ \E dt \in Frames(cm) : ActivePos(update(cm, dt)) # ActivePos(cm)

\* horizontal displacement of the active rig in one update(dt)
Displacement(c, dt) ==
    LET d == update(c, dt)
    IN  [x |-> ActivePos(d).x - ActivePos(c).x, z |-> ActivePos(d).z - ActivePos(c).z]
OnlyForwardBackward(c) == [c EXCEPT !.moveState["left"] = FALSE, !.moveState["right"] = FALSE]
OnlyLeftRight(c) == [c EXCEPT !.moveState["forward"] = FALSE, !.moveState["backward"] = FALSE]
Diagonal(ms) == (ms["forward"] # ms["backward"]) /\ (ms["left"] # ms["right"])

\* C10: with exactly one of forward/backward and exactly one of left/right
\* held, the horizontal displacement of update(dt) is the sum of the
\* displacement with the left/right flags released and the displacement with
\* the forward/backward flags released.
C10_DiagonalIsSum ==
    Diagonal(cm.moveState) =>
        \A dt \in Frames(cm) :
            LET both == Displacement(cm, dt)
                fb == Displacement(OnlyForwardBackward(cm), dt)
                lr == Displacement(OnlyLeftRight(cm), dt)
            IN  both = [x |-> fb.x + lr.x, z |-> fb.z + lr.z]

\* forward and left are held at a yaw off the axes, and a diagonal frame has
\* moved the rig in both X and Z
C10_DiagonalMoved ==
    /\ cm.moveState["forward"] /\ cm.moveState["left"]
    /\ ~cm.moveState["backward"] /\ ~cm.moveState["right"]
    /\ ActiveYaw(cm) # 0
    /\ ActivePos(cm).x # 0
    /\ ActivePos(cm).z \notin {5 * PosUnit, 10 * PosUnit}

(***************************************************************************)
(* Movement, speed and rotation of one update, and of runs of updates      *)
(***************************************************************************)
MovementFlags == {"forward", "backward", "left", "right", "up", "down"}
HeldMoves(ms) == {f \in MovementFlags : ms[f]}
HeldFlags(ms) == {f \in MoveFlags : ms[f]}
WithVertical(c, u, d) == [c EXCEPT !.moveState["up"] = u, !.moveState["down"] = d]

\* C11: in DRONE with only up (only down) held among the movement flags,
\* update(dt) adds +speed*dt (-speed*dt) to position.y and leaves x and z
\* alone, whatever yaw and pitch are; in PERSON the up and down flags change
\* no position.
C11_VerticalMove ==
    \A dt \in Frames(cm) :
        LET d == update(cm, dt)
            speed == IF cm.isRunning THEN 2 * flySpeed ELSE flySpeed
            rise == (speed * dt * PosUnit) \div 10
            pos == cm.droneCamera.position
        IN  /\ (cm.currentMode = DRONE /\ HeldMoves(cm.moveState) = {"up"})
                  => d.droneCamera.position = [pos EXCEPT !.y = @ + rise]
            /\ (cm.currentMode = DRONE /\ HeldMoves(cm.moveState) = {"down"})
                  => d.droneCamera.position = [pos EXCEPT !.y = @ - rise]
            /\ cm.currentMode = PERSON
                  => \A u \in BOOLEAN, w \in BOOLEAN :
                         LET e == update(WithVertical(cm, u, w), dt)
                         IN  /\ e.personCamera.position = d.personCamera.position
                             /\ e.droneCamera.position = cm.droneCamera.position

\* the drone has climbed with only up held, turned and pitched
C11_Climbed ==
    /\ cm.currentMode = DRONE
    /\ HeldMoves(cm.moveState) = {"up"}
    /\ cm.dronePitch # 0
    /\ cm.droneYaw # 0
    /\ cm.droneCamera.position.y > 10 * PosUnit
    /\ cm.droneCamera.position.x = 0

\* the unit vector (in 1/PosUnit) a single movement flag moves along at a yaw
FlagDirection(flag, yaw) ==
    LET fwd == applyAxisAngleY(Vector3(0, 0, -PosUnit), yaw)
        rgt == applyAxisAngleY(Vector3(PosUnit, 0, 0), yaw)
        neg(v) == Vector3(-v.x, -v.y, -v.z)
    IN  CASE flag = "forward" -> fwd
          [] flag = "backward" -> neg(fwd)
          [] flag = "right" -> rgt
          [] flag = "left" -> neg(rgt)
          [] flag = "up" -> Vector3(0, PosUnit, 0)
          [] flag = "down" -> Vector3(0, -PosUnit, 0)
Running(c, r) == [c EXCEPT !.isRunning = r]
ModeFlags(mode) == IF mode = DRONE THEN MovementFlags ELSE MovementFlags \ {"up", "down"}

\* C12: with a single movement flag of the mode held, update(dt) moves the
\* active rig by walkSpeed*dt (PERSON) or flySpeed*dt (DRONE) along that
\* flag's direction when isRunning is false and by exactly twice that when it
\* is true; yaw and pitch after the update do not depend on isRunning.
C12_RunDoubles ==
    \A flag \in ModeFlags(cm.currentMode) :
        HeldMoves(cm.moveState) = {flag} =>
            \A dt \in Frames(cm) :
                LET slow == update(Running(cm, FALSE), dt)
                    fast == update(Running(cm, TRUE), dt)
                    base == IF cm.currentMode = PERSON THEN walkSpeed ELSE flySpeed
                    dir == FlagDirection(flag, YawAfter(cm, dt))
                IN  /\ ActivePos(slow) = add(ActivePos(cm), multiplyScalar(dir, base * dt))
                    /\ ActivePos(fast) = add(ActivePos(cm), multiplyScalar(dir, 2 * base * dt))
                    /\ ActiveYaw(slow) = ActiveYaw(fast)
                    /\ ActivePitch(slow) = ActivePitch(fast)
                    /\ ActiveYaw(slow) = YawAfter(cm, dt)

\* the drone has flown with the run modifier on and one movement flag held
C12_FastFlight ==
    /\ cm.currentMode = DRONE
    /\ cm.isRunning
    /\ Cardinality(HeldMoves(cm.moveState)) = 1
    /\ cm.droneCamera.position # DroneHome

\* n consecutive update(dt) calls
RECURSIVE updateTimes(_, _, _)
updateTimes(c, dt, n) == IF n = 0 THEN c ELSE updateTimes(update(c, dt), dt, n - 1)

\* C13: in DRONE at yaw 0, not running, with forward the only movement flag
\* and no rotation flag held, n consecutive update(dt) calls subtract
\* flySpeed*n*dt from position.z and leave x and y alone.
C13_ForwardFlight ==
    (/\ cm.currentMode = DRONE
     /\ cm.droneYaw = 0
     /\ ~cm.isRunning
     /\ HeldMoves(cm.moveState) = {"forward"}
     /\ ~cm.moveState["rotateLeft"] /\ ~cm.moveState["rotateRight"])
        => \A dt \in DeltaTimes : \A n \in 0..MaxFrames :
               updateTimes(cm, dt, n).droneCamera.position =
                   [cm.droneCamera.position EXCEPT
                        !.z = @ - (flySpeed * n * dt * PosUnit) \div 10]

\* forward is the only flag held at yaw 0 and the drone has already flown
\* down the -Z axis for more than one second's worth of frames
C13_FlownForward ==
    /\ cm.currentMode = DRONE
    /\ cm.droneYaw = 0
    /\ ~cm.isRunning
    /\ HeldFlags(cm.moveState) = {"forward"}
    /\ cm.droneCamera.position.z < (10 - flySpeed) * PosUnit
    /\ cm.droneCamera.position.x = 0
    /\ cm.droneCamera.position.y = 10 * PosUnit

\* the yaw after n updates of dt stays on the tabulated range
Turn(n, dt) == (rotationSpeed * dt * n) \div 10
InRange(yaw) == Abs(yaw) <= MaxYawSteps * YawStep

C15_TransformFromAngles ==
    /\ cm.droneCamera.quaternion = setFromEuler(cm.dronePitch, cm.droneYaw)
    /\ cm.personCamera.quaternion = setFromEuler(cm.personPitch, cm.personYaw)
    /\ cm.droneCamera.quaternion.order = "YXZ" /\ cm.droneCamera.quaternion.z = 0
    /\ cm.personCamera.quaternion.order = "YXZ" /\ cm.personCamera.quaternion.z = 0
    /\ Abs(cm.droneCamera.quaternion.x) <= PitchLimit
    /\ Abs(cm.personCamera.quaternion.x) <= PitchLimit

\* the active rig has been turned while its pitch was driven to the lower
\* bound, and its transform carries the clamped pitch
C15_ClampedAndReset ==
    /\ ActivePitch(cm) = -PitchLimit
    /\ ActiveYaw(cm) # 0
    /\ ActiveQuaternion(cm) = setFromEuler(-PitchLimit, ActiveYaw(cm))
    /\ cm.moveState["lookDown"] /\ cm.moveState["rotateRight"]

\* everything that belongs to the rig of the mode that is not active
Other(mode) == IF mode = DRONE THEN PERSON ELSE DRONE
InactiveRig(c, mode) ==
    IF mode = DRONE
    THEN [yaw |-> c.personYaw, pitch |-> c.personPitch, camera |-> c.personCamera]
    ELSE [yaw |-> c.droneYaw, pitch |-> c.dronePitch, camera |-> c.droneCamera]

\* C16: update(dt) and resetCamera leave the inactive rig's position, yaw,
\* pitch and transform unchanged, whatever flags are held.
C16_InactiveRigUntouched ==
    /\ InactiveRig(resetCamera(cm), cm.currentMode) = InactiveRig(cm, cm.currentMode)
    /\ \A dt \in Frames(cm) :
           InactiveRig(update(cm, dt), cm.currentMode) = InactiveRig(cm, cm.currentMode)

\* flags are held, the active rig has moved and the inactive rig is away from
\* its defaults
C16_BothRigsUsed ==
    /\ HeldMoves(cm.moveState) # {}
    /\ ActivePos(cm) \notin {DroneHome, PersonHome}
    /\ InactiveRig(cm, cm.currentMode).yaw # 0
    /\ InactiveRig(cm, cm.currentMode).camera.position \notin {DroneHome, PersonHome}

\* what a keydown / keyup event leaves behind, all listeners included
AfterKeyDown(c, code) == onKeyDown(keydown(c, code), code)
AfterKeyUp(c, code) == keyup(c, code)

\* C17: Left-Shift sets/clears only the down flag in DRONE and only isRunning
\* in PERSON; Left-Ctrl sets/clears only isRunning in PERSON and changes
\* nothing in DRONE.
C17_ModifierKeys ==
    /\ cm.currentMode = DRONE =>
          /\ AfterKeyDown(cm, "ShiftLeft") = [cm EXCEPT !.moveState["down"] = TRUE]
          /\ AfterKeyUp(cm, "ShiftLeft") = [cm EXCEPT !.moveState["down"] = FALSE]
          /\ AfterKeyDown(cm, "ControlLeft") = cm
          /\ AfterKeyUp(cm, "ControlLeft") = cm
    /\ cm.currentMode = PERSON =>
          /\ AfterKeyDown(cm, "ShiftLeft") = [cm EXCEPT !.isRunning = TRUE]
          /\ AfterKeyUp(cm, "ShiftLeft") = [cm EXCEPT !.isRunning = FALSE]
          /\ AfterKeyDown(cm, "ControlLeft") = [cm EXCEPT !.isRunning = TRUE]
          /\ AfterKeyUp(cm, "ControlLeft") = [cm EXCEPT !.isRunning = FALSE]

\* Left-Shift has been pressed in DRONE (down is set) and a modifier has been
\* pressed in PERSON (isRunning is set), and PERSON has walked
C17_BothMeanings ==
    /\ cm.currentMode = PERSON
    /\ cm.moveState["down"]
    /\ cm.isRunning
    /\ cm.personCamera.position # PersonHome

FlagKeys == DOMAIN KeyFlag

\* C18: for each of W, S, A, D, the four arrows and Space, in both modes,
\* keydown sets exactly the key's flag and keyup clears exactly that flag;
\* every other flag, isRunning, the mode and both rigs are unchanged.
C18_FlagKeys ==
    \A code \in FlagKeys :
        /\ AfterKeyDown(cm, code) = [cm EXCEPT !.moveState[KeyFlag[code]] = TRUE]
        /\ AfterKeyUp(cm, code) = [cm EXCEPT !.moveState[KeyFlag[code]] = FALSE]

\* in PERSON with Space and two other keys held and the modifier on
C18_KeysHeldInPerson ==
    /\ cm.currentMode = PERSON
    /\ {"up", "lookDown"} \subseteq HeldFlags(cm.moveState)
    /\ Cardinality(HeldFlags(cm.moveState)) = 3

\* C19: the toggle (key C) switches DRONE to PERSON and PERSON to DRONE, and
\* two toggles in a row give back the mode and the active camera.
C19_ToggleFlips ==
    LET once == AfterKeyDown(cm, "KeyC")
        twice == AfterKeyDown(once, "KeyC")
    IN  /\ toggleCameraMode(cm).currentMode = Other(cm.currentMode)
        /\ once.currentMode = Other(cm.currentMode)
        /\ getActiveCamera(once) = CameraOf(Other(cm.currentMode))
        /\ twice.currentMode = cm.currentMode
        /\ getActiveCamera(twice) = getActiveCamera(cm)

\* a round trip back into PERSON has completed with a key held
C19_ToggledBack ==
    /\ trip.phase = "back"
    /\ trip.mode = PERSON
    /\ cm.currentMode = PERSON
    /\ cm.moveState["forward"]

\* C20: at most one animate callback is pending at any time, so between two
\* frames update() runs at most once and is followed by exactly one render;
\* pause() followed by resume() before the pending callback has run does not
\* start a second loop.
C20_SingleLoop ==
    /\ app.pending <= 1
    /\ app.updates <= 1
    /\ app.renders = app.updates


\* C21: the T shortcut toggles between day and night: toggleDayNight applied
\* while the day configuration is active leaves the night configuration
\* active, and applied while the night configuration is active leaves the
\* day configuration active.
C21_ToggleAlternates ==
    LET before == getCurrentLightConfig(lm.currentTime)
        after == getCurrentLightConfig(toggleDayNight(lm).currentTime)
    IN  /\ before = "day" => after = "night"
        /\ before = "night" => after = "day"

\* C23: once UIController.dispose() has returned, no keydown, keyup or resize
\* listener of the UIController is left on window, and none of its handlers
\* runs again.
C23_DisposeSilences ==
    ui.disposed => /\ \A i \in 1..Len(WindowEvents) : ~Listening(ui, WindowEvents[i])
                   /\ ui.ran = 0

\* C29: currentTime stays within [0, 24] hours in every state reached by
\* setTime calls with arbitrary times and advanceTime calls with arbitrary
\* non-negative minutes.
C29_TimeInRange == 0 <= lm.currentTime /\ lm.currentTime <= 24 * HOUR

HorizontalFlags == {"forward", "backward", "left", "right"}
Turning(ms) == ms["rotateLeft"] # ms["rotateRight"]
SpeedOf(c) ==
    IF c.currentMode = PERSON THEN (IF c.isRunning THEN runSpeed ELSE walkSpeed)
    ELSE (IF c.isRunning THEN flySpeed * 2 ELSE flySpeed)

\* C24: when exactly one rotate flag and a single horizontal movement flag are
\* held, update(dt) with dt > 0 moves the active rig along the flag's
\* direction at the yaw the rig has after the update, and that displacement
\* differs from the one along the direction at the yaw before the update;
\* the pitch after the update is within the limit.
C24_RotateThenMove ==
    \A flag \in HorizontalFlags :
        (Turning(cm.moveState) /\ HeldMoves(cm.moveState) = {flag}) =>
            \A dt \in Frames(cm) \ {0} :
                LET d == update(cm, dt)
                    along(yaw) == add(ActivePos(cm),
                                      multiplyScalar(FlagDirection(flag, yaw), SpeedOf(cm) * dt))
                IN  /\ ActiveYaw(d) # ActiveYaw(cm)
                    /\ ActivePos(d) = along(ActiveYaw(d))
                    /\ ActivePos(d) # along(ActiveYaw(cm))
                    /\ Abs(ActivePitch(d)) <= PitchLimit

\* the drone has turned and flown forward with both keys still held
C24_TurnedWhileFlying ==
    /\ cm.currentMode = DRONE
    /\ cm.moveState["rotateLeft"] /\ ~cm.moveState["rotateRight"]
    /\ HeldMoves(cm.moveState) = {"forward"}
    /\ cm.droneYaw # 0
    /\ cm.droneCamera.position.x # 0

Without(c, a, b) == [c EXCEPT !.moveState[a] = FALSE, !.moveState[b] = FALSE]
Both(ms, a, b) == ms[a] /\ ms[b]

\* C26: in one update(dt) with dt > 0, forward held together with backward,
\* and left together with right, leave the active rig where the update with
\* that pair released leaves it; in DRONE mode up together with down leave
\* the height unchanged; rotateLeft with rotateRight leave the yaw unchanged
\* and lookUp with lookDown leave the pitch unchanged.
C26_OpposingCancel ==
    \A dt \in Frames(cm) \ {0} :
        LET ms == cm.moveState
            d == update(cm, dt)
        IN  /\ Both(ms, "forward", "backward") =>
                   ActivePos(d) = ActivePos(update(Without(cm, "forward", "backward"), dt))
            /\ Both(ms, "left", "right") =>
                   ActivePos(d) = ActivePos(update(Without(cm, "left", "right"), dt))
            /\ (cm.currentMode = DRONE /\ Both(ms, "up", "down")) =>
                   ActivePos(d).y = ActivePos(cm).y
            /\ Both(ms, "rotateLeft", "rotateRight") => ActiveYaw(d) = ActiveYaw(cm)
            /\ Both(ms, "lookUp", "lookDown") => ActivePitch(d) = ActivePitch(cm)

AllHeld(c) == [c EXCEPT !.moveState = [f \in MoveFlags |-> TRUE]]
OneHeld(c, flag) == [c EXCEPT !.moveState = [f \in MoveFlags |-> f = flag]]
Transform(c, mode) == c[CameraOf(mode)].quaternion

\* C27: update(0) leaves the position, yaw, pitch and transform of both rigs
\* unchanged, whatever flags are held: with the flags of the state, with
\* every flag held, and with any single flag held, running or not.
C27_ZeroFrame ==
    \A c \in {cm, AllHeld(cm)} \cup {OneHeld(cm, flag) : flag \in MoveFlags},
       r \in BOOLEAN, mode \in Modes :
        LET d == update(Running(c, r), 0)
        IN  /\ Rig(d, mode) = Rig(c, mode)
            /\ Transform(d, mode) = Transform(c, mode)

\* the person stands turned, pitched and away from home with keys held
C27_HeldInPerson ==
    /\ cm.currentMode = PERSON
    /\ cm.moveState["forward"] /\ cm.moveState["rotateLeft"]
    /\ cm.personYaw # 0
    /\ cm.personCamera.position # PersonHome

\* C25: for every interleaving of key-down events, matching key-up events and
\* mode switches, whenever no bound key is physically held every MoveState
\* flag and isRunning are false.
C25_FlagsFollowKeys ==
    held \cap CameraKeys = {} =>
        /\ \A flag \in MoveFlags : ~cm.moveState[flag]
        /\ ~cm.isRunning

\* C28: a switchMode call with a value that is neither DRONE nor PERSON leaves
\* currentMode and the active camera unchanged: whatever values switchMode is
\* called with, currentMode is DRONE or PERSON, and update(dt) with dt > 0
\* and forward held moves the rig that getActiveCamera() returns.
C28_BadModeIgnored ==
    /\ cm.currentMode \in Modes
    /\ \A mode \in AnyModes \ Modes :
           getActiveCamera(switchMode(cm, mode)) = getActiveCamera(cm)
    /\ cm.moveState["forward"] =>
           \A dt \in Frames(cm) \ {0} :
               update(cm, dt)[getActiveCamera(cm)].position # cm[getActiveCamera(cm)].position

\* C22: a request for an asset that has been loaded successfully since the
\* last clearCache is answered from the cache and issues no loader request;
\* right after clearCache the cache is empty (totalSize = 0); and the first
\* request for an asset after a clearCache issues a loader request.
C22_CacheContract ==
    /\ (assets.last.op = "load" /\ assets.last.done) => assets.last.hit
    /\ assets.last.op = "clearCache" => getCacheInfo(assets).totalSize = 0
    /\ (assets.last.op = "load" /\ assets.last.fresh) => ~assets.last.hit

\* C31: when showLoadingScreen was called after the last hideLoadingScreen,
\* the loading screen is displayed (display 'flex', class 'hidden' absent),
\* whatever timers of earlier hides fire in between.
C31_ShownStaysShown ==
    screen.last = "show" => (screen.display = "flex" /\ ~screen.hidden)

\* C34: once init() has ended, by success or by an exception at any step,
\* and before any later call shows the screen again, the loading screen has
\* the class 'hidden' and, once no hide timer is pending, display 'none';
\* after a successful init the animation loop runs and isInitialized is true.
C34_InitHidesScreen ==
    (boot.pc \in {"done", "failed"} /\ ~boot.used) =>
        /\ screen.hidden
        /\ screen.timers = 0 => screen.display = "none"
        /\ boot.pc = "done" => (app.isRunning /\ app.isInitialized)

(***************************************************************************)
(* The generated city                                                      *)
(***************************************************************************)
Named(objects, name) == {o \in objects : o.name = name}
Generation(c) ==
    /\ Cardinality(c.scene) = 3
    /\ \A name \in {"grid-ground", "grid-helper", "test-box"} :
           Cardinality(Named(c.scene, name)) = 1
    /\ Len(c.cityModels) = 3
    /\ Range(c.cityModels) = c.scene
    /\ Len(c.buildings) = 1
    /\ c.buildings[1].name = "test-box"
    /\ c.buildings[1] \in c.scene

\* C35: a generateCity call, from whatever state the generator is in, leaves
\* exactly one grid ground, one grid helper and one test box of the generator
\* in the scene, 3 entries in cityModels and 1 in buildings, and every object
\* the generator held before is out of the scene and disposed; every state
\* after a completed init or regeneration has exactly this content.
C35_OneGeneration ==
    /\ LET g == generateCity(city)
       IN  /\ Generation(g)
           /\ \A o \in city.scene : o \notin g.scene /\ o \in g.disposed
    /\ (boot.pc = "done" /\ city.cityModels # <<>>) => Generation(city)
    /\ \A o \in city.disposed : o \notin city.scene

\* the city has been generated at least twice and the objects of an earlier
\* generation are disposed
C35_Regenerated ==
    /\ boot.pc = "done"
    /\ city.created >= 6
    /\ Cardinality(city.scene) = 3
    /\ Cardinality(city.disposed) >= 3

\* C32: at most one loader request per asset is outstanding: a loadModel or
\* loadTexture call for an uncached path whose earlier request is still in
\* flight, or a loadModels call with a repeated path, issues no second
\* loader request.
C32_OneRequestPerPath ==
    \A key \in AssetKeys : assets.inflight[key] <= 1

\* C33: after pause() or stop() and until the next resume() call no camera
\* update and no render is executed, whatever callbacks fire; and resume()
\* changes nothing unless initialisation has completed and the app is not
\* running.
C33_IdleUntilResume ==
    /\ app.halted => (app.updates = 0 /\ app.renders = 0)
    /\ ~(app.isInitialized /\ ~app.isRunning) =>
           \A dt \in Frames(cm) : resume(World, dt) = World
====
